---- MODULE Spec2Model ----
(***************************************************************************)
(* Model of src/main.py: the main loop over TARGET_URLS, which for every   *)
(* target runs download_latest_files and then clean_old_files.             *)
(*                                                                         *)
(* The environment (the HTTP server, the file system, the clock that       *)
(* stamps modification times, the external scheduler that starts the       *)
(* program again) is the nondeterministic part: every HTTP request may     *)
(* succeed or raise RequestException, os.makedirs and open may raise       *)
(* OSError, os.remove may raise OSError, a write is stamped with the       *)
(* clock's time, which never goes back. Not modelled: OSError of           *)
(* os.listdir, os.path.getmtime and f.write, and other processes changing  *)
(* the folders. File names are hrefs without directory parts.              *)
(***************************************************************************)
EXTENDS Integers, Sequences, FiniteSets, TLC

(* ------------------------------ bounds -------------------------------- *)
\* longest listing, counted in file links over all the targets' pages
MaxListing == 2
\* files the destination folders hold before the first run, over all targets
MaxInitFiles == 2
\* largest configured NUM_LAST_FILES_TO_DOWNLOAD
MaxN == 2
\* syncs of a target (download_latest_files, then clean_old_files) over all
\* the runs of the program: the external scheduler starts the program again
\* while a whole run fits
MaxSyncs == 2
\* largest modification time the clock reaches (the files the folders hold
\* before the first run carry time 0)
MaxClock == 2

(* --------------------------- configuration ---------------------------- *)
\* configurations of TARGET_URLS: one target, or two (targets are numbered;
\* target t stands for the pair (url t, folder t))
TargetConfigs == { <<1>>, <<1, 2>> }

\* the href of the parent directory, which line 58 leaves out
ParentLink == <<".", ".", "/">>

\* file names, as the character sequences str.startswith looks at
Names == { <<"r", "i", "i", "1">>, <<"r", "i", "i", "2">>, <<"r", "t", "i", "1">> }

\* the names the servers list; the folders may hold any of Names
ServerFiles == { <<"r", "i", "i", "1">>, <<"r", "i", "i", "2">> }

\* the default of clean_old_files' file_patterns, which main uses
file_patterns == << <<"r", "i", "i">>, <<"r", "t", "i">>, <<"r", "k", "a">> >>

(* ------------------------------ helpers ------------------------------- *)
Min(a, b) == IF a < b THEN a ELSE b
Max(a, b) == IF a > b THEN a ELSE b
Range(s) == { s[i] : i \in DOMAIN s }
SeqsUpTo(S, n) == UNION { [1..k -> S] : k \in 0..n }

RECURSIVE SumOver(_, _)
SumOver(f, D) ==
    IF D = {} THEN 0
    ELSE LET d == CHOOSE x \in D : TRUE IN f[d] + SumOver(f, D \ {d})

\* str.startswith
StartsWith(f, p) == Len(f) >= Len(p) /\ SubSeq(f, 1, Len(p)) = p

\* Python's s[i:] for an integer i
PySliceFrom(s, i) ==
    LET start == IF i < 0 THEN Max(Len(s) + i, 0) ELSE Min(i, Len(s))
    IN  SubSeq(s, start + 1, Len(s))

\* Python's s[:j] for an integer j
PySliceTo(s, j) ==
    LET stop == IF j < 0 THEN Max(Len(s) + j, 0) ELSE Min(j, Len(s))
    IN  SubSeq(s, 1, stop)

(* ---------------------------- file system ----------------------------- *)
\* body: "old" a file the folder held before the first run, "full" a
\* complete copy of the source file, "partial" a truncated copy
NoFile == [mtime |-> -1, body |-> "none"]
OldFile == [mtime |-> 0, body |-> "old"]
NoFolder == [exists |-> FALSE, files |-> [f \in Names |-> NoFile]]
CountFiles(fo) == Cardinality({ f \in Names : fo.files[f] # NoFile })

InitFolders ==
    {NoFolder} \cup
    { [exists |-> TRUE, files |-> fs] : fs \in [Names -> {NoFile, OldFile}] }

\* a listing page: with or without a <pre> block, whose links start with
\* the parent directory's
Pages ==
    { [pre |-> FALSE, links |-> <<>>] } \cup
    { [pre |-> TRUE, links |-> <<ParentLink>> \o s] : s \in SeqsUpTo(ServerFiles, MaxListing) }
CountLinks(p) == IF p.pre THEN Len(p.links) - 1 ELSE 0

VARIABLES
    TARGET_URLS,                 \* config: the targets, in dict order
    NUM_LAST_FILES_TO_DOWNLOAD,  \* config
    page,                        \* the server: target -> listing page
    folder,                      \* the file system: target -> folder
    clock,                       \* the clock that stamps modification times
    syncs,                       \* syncs the runs started so far make
    cur,                         \* main: index of the target being processed
    pc,                          \* where the program is
    local_files,                 \* download_latest_files: the known set
    all_file_links,              \* download_latest_files
    latest_files,                \* download_latest_files: the candidates
    idx,                         \* download_latest_files: loop position
    downloaded_count,            \* download_latest_files
    files_to_delete,             \* clean_old_files: of every pattern
    listing,                     \* history: how this sync's listing GET ended
    requests,                    \* history: file-body requests of this sync
    log,                         \* history: warnings and errors of this sync
    deleted,                     \* history: files this sync's prune removed
    prev                         \* history: target -> how its last sync ended

vars == << TARGET_URLS, NUM_LAST_FILES_TO_DOWNLOAD, page, folder, clock, syncs,
           cur, pc, local_files, all_file_links, latest_files, idx,
           downloaded_count, files_to_delete, listing, requests, log,
           deleted, prev >>

config == << TARGET_URLS, NUM_LAST_FILES_TO_DOWNLOAD, page >>
locals == << local_files, all_file_links, latest_files, idx, downloaded_count >>
cleanVars == << files_to_delete, deleted >>

Targets == DOMAIN TARGET_URLS

Init ==
    /\ TARGET_URLS \in TargetConfigs
    /\ NUM_LAST_FILES_TO_DOWNLOAD \in 0..MaxN
    /\ page \in { p \in [DOMAIN TARGET_URLS -> Pages] :
                    SumOver([t \in DOMAIN p |-> CountLinks(p[t])], DOMAIN p) <= MaxListing }
    /\ folder \in { fo \in [DOMAIN TARGET_URLS -> InitFolders] :
                    SumOver([t \in DOMAIN fo |-> CountFiles(fo[t])], DOMAIN fo) <= MaxInitFiles }
    /\ clock = 0
    /\ syncs = Len(TARGET_URLS)
    /\ cur = 1
    /\ pc = "start"
    /\ local_files = {}
    /\ all_file_links = <<>>
    /\ latest_files = <<>>
    /\ idx = 0
    /\ downloaded_count = 0
    /\ files_to_delete = <<>>
    /\ listing = "none"
    /\ requests = <<>>
    /\ log = {}
    /\ deleted = {}
    /\ prev = [t \in DOMAIN TARGET_URLS |-> "none"]

(* ------------------------ operators of the code ----------------------- *)
\* the names a folder holds
Present(files) == { f \in Names : files[f] # NoFile }

\* os.listdir(download_folder), as a set (line 38)
\* (ListDirNothing: a variant that finds no file)
ListDirNothing(t) == {}
ListDir(t) == Present(folder[t].files)

\* the test of line 71, negated: the candidate is in the known set
\* (InKnownSetNever: a variant without the test)
InKnownSetNever(f) == FALSE
InKnownSet(f) == f \in local_files

\* line 58: the hrefs of the <pre> block but the parent directory's
FileLinks(links) == SelectSeq(links, LAMBDA h : h # ParentLink)

\* line 65: all_file_links[-num_files_to_download:]
LatestFiles(links, n) == PySliceFrom(links, -n)

\* lines 47-49: the except clause logs and returns, and main goes on to
\* clean_old_files
\* (OnFetchErrorRaise: a variant without the except clause)
OnFetchErrorRaise == "crashed"
OnFetchError == "clean"

\* lines 84-85: the except clause logs, and the for loop goes on with the
\* next candidate
\* (AbortAfterError: a variant whose except clause leaves the loop)
AbortAfterError(i) == Len(latest_files) + 1
AfterDownloadError(i) == i + 1

\* line 143: num_files_to_keep
KeepCount == NUM_LAST_FILES_TO_DOWNLOAD * Len(TARGET_URLS)

\* os.path.getmtime, the sort key of line 117
\* (getmtimeNewestFirst: a variant that sorts from new to old)
getmtimeNewestFirst(files, f) == 0 - files[f].mtime
getmtime(files, f) == files[f].mtime

\* line 110: the files of the folder that start with the pattern
Matching(files, pattern) == { f \in Present(files) : StartsWith(f, pattern) }

\* line 117: os.listdir returns the names in any order and list.sort is
\* stable, so the result is any arrangement of the names that ascends by
\* the key
SortedOrders(files, S) ==
    { s \in [1..Cardinality(S) -> S] :
        /\ \A i, j \in DOMAIN s : i # j => s[i] # s[j]
        /\ \A i, j \in DOMAIN s :
             i < j => getmtime(files, s[i]) <= getmtime(files, s[j]) }

\* line 120: all_files[:-num_files_to_keep]
FilesToDelete(all_files, k) == PySliceTo(all_files, -k)

\* lines 108-134, one pattern: the states the loop body can leave, from
\* state st = [files, deleted, ftd, err]: ftd collects the pattern's
\* files_to_delete, err says that an os.remove raised OSError (which the
\* except clause of line 133 logs)
CleanOne(p, st) ==
    LET S == Matching(st.files, file_patterns[p]) IN
    IF S = {}
    THEN { [st EXCEPT !.ftd = Append(@, <<>>)] }
    ELSE UNION {
           LET ftd == FilesToDelete(all_files, KeepCount) IN
           { LET removed == Range(ftd) \ failing IN
             [ files |-> [f \in Names |-> IF f \in removed THEN NoFile ELSE st.files[f]],
               deleted |-> st.deleted \cup removed,
               ftd |-> Append(st.ftd, ftd),
               err |-> st.err \/ failing # {} ]
             : failing \in SUBSET Range(ftd) }
           : all_files \in SortedOrders(st.files, S) }

\* lines 108-134: the patterns from the p-th on, in order
RECURSIVE CleanFrom(_, _)
CleanFrom(p, st) ==
    IF p > Len(file_patterns) THEN {st}
    ELSE UNION { CleanFrom(p + 1, s2) : s2 \in CleanOne(p, st) }

\* the locals of the two functions are gone when they have returned or the
\* process has ended, and the history of the sync with them
ForgetSync ==
    /\ local_files' = {}
    /\ all_file_links' = <<>>
    /\ latest_files' = <<>>
    /\ idx' = 0
    /\ downloaded_count' = 0
    /\ files_to_delete' = <<>>
    /\ listing' = "none"
    /\ requests' = <<>>
    /\ log' = {}
    /\ deleted' = {}

\* the uncaught exception ends the process: the sync of cur is not completed
Crash ==
    /\ pc' = "crashed"
    /\ prev' = [prev EXCEPT ![cur] = "crashed"]

(* ----------------------- download_latest_files ------------------------ *)
\* lines 29-42: create the folder if it is missing, enumerate the known set.
\* (os.listdir finds the folder, which exists by then: the FileNotFoundError
\* of line 40 needs another process to remove it in between.)
Prepare ==
    /\ pc = "start"
    /\ UNCHANGED << config, clock, syncs, cur, all_file_links, latest_files, idx,
                    downloaded_count, cleanVars, listing, requests, log >>
    /\ IF ~folder[cur].exists
       THEN \E created \in BOOLEAN :
              IF created
              THEN /\ folder' = [folder EXCEPT ![cur].exists = TRUE]
                   /\ local_files' = {}
                   /\ pc' = "fetch"
                   /\ UNCHANGED prev
              ELSE \* os.makedirs raises OSError, which nothing catches
                   /\ UNCHANGED << folder, local_files >>
                   /\ Crash
       ELSE /\ local_files' = ListDir(cur)
            /\ pc' = "fetch"
            /\ UNCHANGED << folder, prev >>

\* lines 44-66: fetch the listing page, parse it, select the candidates
FetchListing ==
    /\ pc = "fetch"
    /\ UNCHANGED << config, folder, clock, syncs, cur, local_files,
                    downloaded_count, files_to_delete, deleted, requests >>
    /\ \E ok \in BOOLEAN :
         /\ listing' = (IF ok THEN "ok" ELSE "failed")
         /\ IF ~ok
            THEN \* requests.get or raise_for_status raises RequestException
                 /\ log' = log \cup {"fetch_error"}
                 /\ pc' = OnFetchError
                 /\ UNCHANGED << all_file_links, latest_files, idx, prev >>
            ELSE IF ~page[cur].pre
            THEN /\ log' = log \cup {"no_pre"}
                 /\ pc' = "clean"
                 /\ UNCHANGED << all_file_links, latest_files, idx, prev >>
            ELSE IF FileLinks(page[cur].links) = <<>>
            THEN /\ log' = log \cup {"no_links"}
                 /\ all_file_links' = <<>>
                 /\ pc' = "clean"
                 /\ UNCHANGED << latest_files, idx, prev >>
            ELSE /\ all_file_links' = FileLinks(page[cur].links)
                 /\ latest_files' = LatestFiles(all_file_links', NUM_LAST_FILES_TO_DOWNLOAD)
                 /\ idx' = 1
                 /\ pc' = "loop"
                 /\ UNCHANGED << log, prev >>

\* lines 70-71, 86-87: the candidate is in the known set
Skip ==
    /\ pc = "loop"
    /\ idx <= Len(latest_files)
    /\ InKnownSet(latest_files[idx])
    /\ idx' = idx + 1
    /\ UNCHANGED << config, folder, clock, syncs, cur, pc, local_files,
                    all_file_links, latest_files, downloaded_count, cleanVars,
                    listing, requests, log, prev >>

\* what open(file_path, 'wb') and the writes leave at the path
Written(t, f, stamp, b) ==
    [folder EXCEPT ![t].files[f] = [mtime |-> stamp, body |-> b]]

\* lines 72-85: request the file's body and stream it to the destination.
\* outcome "error": requests.get or raise_for_status raises RequestException
\* before the destination is opened; "oserror": open raises OSError, which
\* the except clause of line 84 does not catch; "partial": iter_content
\* raises RequestException after open, part of the body written; "ok".
Download ==
    /\ pc = "loop"
    /\ idx <= Len(latest_files)
    /\ ~InKnownSet(latest_files[idx])
    /\ UNCHANGED << config, syncs, cur, local_files, all_file_links,
                    latest_files, cleanVars, listing >>
    /\ LET f == latest_files[idx] IN
       \E outcome \in {"ok", "error", "partial", "oserror"} :
         /\ requests' = Append(requests, [name |-> f, result |-> outcome])
         /\ CASE outcome = "error" ->
                   /\ log' = log \cup {"download_error"}
                   /\ idx' = AfterDownloadError(idx)
                   /\ UNCHANGED << folder, clock, pc, downloaded_count, prev >>
              [] outcome = "oserror" ->
                   /\ Crash
                   /\ UNCHANGED << folder, clock, idx, downloaded_count, log >>
              [] outcome = "partial" ->
                   \E stamp \in {clock, Min(clock + 1, MaxClock)} :
                     /\ folder' = Written(cur, f, stamp, "partial")
                     /\ clock' = stamp
                     /\ log' = log \cup {"download_error"}
                     /\ idx' = AfterDownloadError(idx)
                     /\ UNCHANGED << pc, downloaded_count, prev >>
              [] outcome = "ok" ->
                   \E stamp \in {clock, Min(clock + 1, MaxClock)} :
                     /\ folder' = Written(cur, f, stamp, "full")
                     /\ clock' = stamp
                     /\ downloaded_count' = downloaded_count + 1
                     /\ idx' = idx + 1
                     /\ UNCHANGED << pc, log, prev >>

\* lines 89-90: the loop is over, the function returns and main calls
\* clean_old_files
FinishDownload ==
    /\ pc = "loop"
    /\ idx > Len(latest_files)
    /\ pc' = "clean"
    /\ UNCHANGED << config, folder, clock, syncs, cur, locals, files_to_delete,
                    listing, requests, log, deleted, prev >>

(* --------------------------- clean_old_files -------------------------- *)
\* lines 102-137
clean_old_files ==
    /\ pc = "clean"
    /\ pc' = "cleaned"
    /\ UNCHANGED << config, clock, syncs, cur, locals, listing, requests, prev >>
    /\ IF ~folder[cur].exists
       THEN /\ log' = log \cup {"no_folder"}
            /\ UNCHANGED << folder, files_to_delete, deleted >>
       ELSE \E r \in CleanFrom(1, [files |-> folder[cur].files, deleted |-> {},
                                   ftd |-> <<>>, err |-> FALSE]) :
              /\ folder' = [folder EXCEPT ![cur].files = r.files]
              /\ deleted' = r.deleted
              /\ files_to_delete' = r.ftd
              /\ log' = IF r.err THEN log \cup {"delete_error"} ELSE log

(* -------------------------------- main -------------------------------- *)
\* how the sync of cur ended: "clean" when neither the listing fetch nor a
\* download failed and the prune removed no candidate
SyncResult ==
    IF listing = "failed" THEN "fetch_failed"
    ELSE IF "download_error" \in log THEN "download_failed"
    ELSE IF deleted \cap Range(latest_files) # {} THEN "pruned"
    ELSE "clean"

\* line 141: clean_old_files has returned, the for loop of main takes the
\* next target or the program ends
Advance ==
    /\ pc = "cleaned"
    /\ prev' = [prev EXCEPT ![cur] = SyncResult]
    /\ IF cur < Len(TARGET_URLS)
       THEN cur' = cur + 1 /\ pc' = "start"
       ELSE cur' = cur /\ pc' = "exit"
    /\ ForgetSync
    /\ UNCHANGED << config, folder, clock, syncs >>

\* the external scheduler starts the program again
StartRun ==
    /\ pc \in {"exit", "crashed"}
    /\ syncs + Len(TARGET_URLS) <= MaxSyncs
    /\ syncs' = syncs + Len(TARGET_URLS)
    /\ cur' = 1
    /\ pc' = "start"
    /\ ForgetSync
    /\ UNCHANGED << config, folder, clock, prev >>

Next ==
    \/ Prepare
    \/ FetchListing
    \/ Skip
    \/ Download
    \/ FinishDownload
    \/ clean_old_files
    \/ Advance
    \/ StartRun

Spec == Init /\ [][Next]_vars

(* ------------------------------ claims -------------------------------- *)
\* the names whose body this sync requested, in the order of the requests
RequestNames == [i \in DOMAIN requests |-> requests[i].name]
\* the files this sync downloaded successfully
Got == { requests[i].name : i \in { j \in DOMAIN requests : requests[j].result = "ok" } }
\* the files this sync opened for writing
Created ==
    { requests[i].name :
        i \in { j \in DOMAIN requests : requests[j].result \in {"ok", "partial"} } }
NotKnown(f) == f \notin local_files
\* the candidates the loop has dealt with
Processed == SubSeq(latest_files, 1, Min(Max(idx - 1, 0), Len(latest_files)))

C2_CandidatesAreTail ==
    pc = "loop" =>
        LET M == Len(all_file_links)
            n == Min(M, NUM_LAST_FILES_TO_DOWNLOAD)
        IN  /\ Len(latest_files) = n
            /\ latest_files = SubSeq(all_file_links, M - n + 1, M)

\* C3 (as claimed): for every pattern, with M matching files, the deletion
\* set of clean_old_files has max(0, M - K) files, and they are the oldest
\* of the matching files. (No name starts with two of the patterns, so the
\* files that match a pattern when its turn comes are those that matched
\* it when clean_old_files began.)
C3_DeletesAllButLastK ==
    [][ (pc = "clean" /\ folder[cur].exists) =>
          \A p \in DOMAIN file_patterns :
            LET S == Matching(folder[cur].files, file_patterns[p])
                D == Range(files_to_delete'[p])
            IN  /\ Len(files_to_delete'[p]) = Max(0, Cardinality(S) - KeepCount)
                /\ Cardinality(D) = Len(files_to_delete'[p])
                /\ D \subseteq S
                /\ \A d \in D, k \in S \ D :
                     folder[cur].files[d].mtime <= folder[cur].files[k].mtime ]_vars

\* C4 (as claimed): no exception propagates to the top level, the process
\* never ends before the main loop has taken every target.
C4_NoFatalError == pc # "crashed"

\* C5 (as claimed): when the listing GET fails, the sync of that target
\* logs the error, downloads nothing and deletes nothing, and the process
\* goes on.
C5_FetchFailureNoDownloadNoDeletion ==
    listing = "failed" =>
        /\ "fetch_error" \in log
        /\ requests = <<>>
        /\ deleted = {}
        /\ pc # "crashed"

\* C5 (amended): when the listing GET fails, the sync of that target logs
\* the error and requests, creates and rewrites no file; clean_old_files
\* still runs for the target's folder (and may delete), and then the main
\* loop takes the next target, or the program ends after the last.
C5_FetchFailureNoDownload ==
    /\ [](listing = "failed" =>
            /\ "fetch_error" \in log
            /\ requests = <<>>
            /\ downloaded_count = 0
            /\ pc \in {"clean", "cleaned"})
    /\ [][ (listing = "failed" /\ pc = "clean") =>
             /\ pc' = "cleaned"
             /\ cur' = cur
             /\ \A f \in Names :
                  folder'[cur].files[f] \in {folder[cur].files[f], NoFile} ]_vars
    /\ [][ (listing = "failed" /\ pc = "cleaned") =>
             IF cur < Len(TARGET_URLS)
             THEN pc' = "start" /\ cur' = cur + 1
             ELSE pc' = "exit" ]_vars

\* the main loop has reached the second target after the listing GET of
\* the first failed
C5_Witness == prev[1] = "fetch_failed" /\ pc = "start" /\ cur = 2

\* C6: a failed download is logged and not counted, and the loop goes on:
\* at every point of the loop and after it, the bodies requested are those
\* of the candidates dealt with that are not in the known set, in listed
\* order, and downloaded_count is the number of the successful ones.
C6_DownloadFaultIsolation ==
    pc \in {"loop", "clean", "cleaned"} =>
        /\ RequestNames = SelectSeq(Processed, NotKnown)
        /\ pc # "loop" => Processed = latest_files
        /\ downloaded_count =
             Cardinality({ i \in DOMAIN requests : requests[i].result = "ok" })
        /\ (\E i \in DOMAIN requests : requests[i].result \in {"error", "partial"})
             => "download_error" \in log

\* a download failed and the next candidate was downloaded
C6_Witness ==
    /\ pc = "clean"
    /\ \E i \in DOMAIN requests :
         /\ requests[i].result \in {"error", "partial"}
         /\ i + 1 \in DOMAIN requests
         /\ requests[i + 1].result = "ok"
         /\ downloaded_count = 1

\* C7 (as claimed): during a sync (download_latest_files, then
\* clean_old_files) no body is requested for a candidate that is in the
\* known set, and the sync leaves that candidate's local file as it is.
C7_SkippedFilesUntouchedBySync ==
    /\ [](pc \in {"loop", "clean", "cleaned"} =>
            \A i \in DOMAIN requests : requests[i].name \notin local_files)
    /\ [][ (pc = "loop" \/ pc = "clean") =>
             \A f \in local_files \cap Range(latest_files) :
                folder'[cur].files[f] = folder[cur].files[f] ]_vars

\* C7 (amended): no body is requested for a candidate that is in the known
\* set, and download_latest_files leaves the files of the known set as
\* they are (the clean_old_files call that follows may delete them).
C7_SkipExisting ==
    /\ [](pc \in {"loop", "clean", "cleaned"} =>
            \A i \in DOMAIN requests : requests[i].name \notin local_files)
    /\ [][ pc = "loop" =>
             \A f \in local_files : folder'[cur].files[f] = folder[cur].files[f] ]_vars

\* a sync that skipped one candidate and downloaded another
C7_Witness ==
    /\ pc = "clean"
    /\ idx > Len(latest_files)
    /\ \E i \in DOMAIN latest_files : latest_files[i] \in local_files
    /\ Got # {}

\* C8 (as claimed, here for N >= 1): the download loop never opens a path
\* at which a file exists: no existing file is rewritten.
C8_NoOverwrite ==
    [][ (pc = "loop" /\ NUM_LAST_FILES_TO_DOWNLOAD >= 1) =>
          \A f \in Names :
             folder[cur].files[f] # NoFile
                => folder'[cur].files[f] = folder[cur].files[f] ]_vars

\* C9 (as claimed): every file a sync created holds the complete body.
C9_NoPartialFile ==
    \A t \in Targets, f \in Names : folder[t].files[f].body # "partial"

\* C10 (as claimed): with N >= 1 and modification times from a
\* non-decreasing clock, the prune removes no file the same sync
\* downloaded.
C10_FreshFilesSurvive ==
    NUM_LAST_FILES_TO_DOWNLOAD >= 1 => deleted \cap Got = {}

\* the files the folder held before this sync's downloads
Older == ListDir(cur) \ Created
\* C10 (amended): with N >= 1, when every file the sync downloaded has a
\* modification time strictly greater than that of every file the folder
\* held before, the prune removes no file the same sync downloaded.
C10_StrictlyNewerFilesSurvive ==
    [][ ( /\ pc = "clean"
          /\ NUM_LAST_FILES_TO_DOWNLOAD >= 1
          /\ \A g \in Got \cap ListDir(cur), o \in Older :
               folder[cur].files[g].mtime > folder[cur].files[o].mtime )
        => \A g \in Got \cap ListDir(cur) : folder'[cur].files[g] # NoFile ]_vars

\* the prune removed an older file and kept the file just downloaded, which
\* is newer than every file the folder held at the start (those carry 0)
C10_Witness ==
    /\ pc = "cleaned"
    /\ syncs = Len(TARGET_URLS)
    /\ NUM_LAST_FILES_TO_DOWNLOAD >= 1
    /\ deleted # {}
    /\ Got # {}
    /\ \A g \in Got : folder[cur].files[g].mtime >= 1

====
